---- MODULE Spec2Model ----
(***************************************************************************)
(* A model of the cannon-wrapper repository:                               *)
(*   - GetPropertyCommand (edsdk/include/GetPropertyCommand.h): the        *)
(*     command that fetches one property, or the seven shooting            *)
(*     properties, from the closed EDSDK and forwards it to the camera     *)
(*     model and its observers;                                            *)
(*   - the stubbed pybind11 binding (bindings.cpp): CameraModel, the       *)
(*     Processor / Observable skeleton and the command classes.            *)
(* The EDSDK itself is a closed binary: each of its calls is a             *)
(* nondeterministic choice over the results its C ABI can deliver.         *)
(***************************************************************************)
EXTENDS Integers, Sequences, FiniteSets, TLC

\* ---------------------------------------------------------------- bounds

\* Property values delivered by the SDK range over 0..MaxVal.
MaxVal == 1

\* Commands handed to Processor.enqueue, and observers handed to
\* add_observer, are counted up to MaxObj.
MaxObj == 2

\* Width in bits of uintptr_t and of the EdsCameraRef pointer in the model
\* (the build's is 64; the round trip is the same at every width).
PtrBits == 4

\* ------------------------------------------------------- SDK vocabulary

\* EdsError values (EDSDKErrors.h, used at GetPropertyCommand.h:37-49).
EDS_ERR_OK == 0
EDS_ERRORID_MASK == 65535
EDS_ERR_DEVICE_BUSY == 129

\* x & y on naturals, bit by bit.
RECURSIVE BitAnd(_, _)
BitAnd(x, y) ==
    IF x = 0 \/ y = 0 THEN 0
    ELSE (IF x % 2 = 1 /\ y % 2 = 1 THEN 1 ELSE 0) + 2 * BitAnd(x \div 2, y \div 2)

\* The failures the SDK can report: device busy bare (0x81), device busy
\* with component bits set (0x02000081), device busy with reserved bits set
\* (0x00010081), and errors that are not device busy: an internal error
\* (0x02), an error ID that shares only its low byte with device busy
\* (0x0181), and one whose error-ID part is zero (0x01000000).
SdkErrors == {129, 33554561, 65665, 2, 385, 16777216}

\* The seven properties fetched for kEdsPropID_Unknown, in source order.
UnknownList ==
    << "kEdsPropID_AEModeSelect", "kEdsPropID_Tv", "kEdsPropID_Av",
       "kEdsPropID_ISOSpeed", "kEdsPropID_MeteringMode",
       "kEdsPropID_ExposureCompensation", "kEdsPropID_ImageQuality" >>

Range(s) == { s[i] : i \in 1..Len(s) }

\* Known property IDs a command can be built with, besides the seven.
KnownProps ==
    Range(UnknownList) \cup
    { "kEdsPropID_ProductName", "kEdsPropID_FocusInfo", "kEdsPropID_Evf_AFMode" }

PropertyIDs == KnownProps \cup { "kEdsPropID_Unknown" }

\* Data types EdsGetPropertySize can report; getProperty handles three.
DataTypes ==
    { "kEdsDataType_UInt32", "kEdsDataType_String", "kEdsDataType_FocusInfo",
      "kEdsDataType_Int32" }

Values == 0..MaxVal

\* Classes whose add_observer / notify_observers the binding exposes.
ObservableClasses == { "Observable", "CameraModel" }

\* ------------------------------------------------------------------ state

VARIABLES
    pc,          \* position of the thread running GetPropertyCommand
    _propertyID, \* GetPropertyCommand::_propertyID
    sdkData,     \* the value the camera currently holds (what the SDK delivers)
    todo,        \* properties still to fetch in getProperty(kEdsPropID_Unknown)
    propertyID,  \* getProperty's parameter in the running call
    err,         \* the EdsError of the running call
    dataType,    \* output of EdsGetPropertySize
    model,       \* the CameraModel the command writes to
    events,      \* CameraEvents passed to _model->notifyObservers, in order
    sdkCalls,    \* EDSDK calls made by execute() and their results, in order
    ret,         \* what execute() returned ("none" before it returns)
    \* the stubbed binding (bindings.cpp), driven from the host language
    stubModel,   \* the bound CameraModel object: its only field is camera_
    pyHandle,    \* the integer the caller passed to CameraModel(...)
    lastCall,    \* the last binding call the caller made
    lastRet,     \* what that call returned to the caller
    lastSet,     \* the caller's latest set_* / set_property_desc call
    pending,     \* commands the caller enqueued and did not clear
    observers,   \* observers the caller added and did not remove, per class
    executeInvoked, \* times the Processor invoked an enqueued command's execute
    updateInvoked,  \* times an observer's update was invoked
    lastSdk         \* what the SDK did in the caller's last Eds* binding call

gpVars ==
    << pc, _propertyID, sdkData, todo, propertyID, err, dataType, model,
       events, sdkCalls, ret >>

stubVars ==
    << stubModel, pyHandle, lastCall, lastRet, lastSet, pending, observers,
       executeInvoked, updateInvoked, lastSdk >>

vars == << gpVars, stubVars >>

\* ------------------------------------------------------------ CameraModel

\* The model after construction: every property zeroed.
CameraModelInit ==
    [ uint32 |-> [ p \in KnownProps |-> 0 ],
      str |-> [ p \in KnownProps |-> 0 ],
      focusInfo |-> 0 ]

\* CameraModel::setPropertyUInt32(propertyID, value)
setPropertyUInt32(m, id, value) ==
    [ m EXCEPT !.uint32[id] = value ]

\* CameraModel::setPropertyString(propertyID, str)
setPropertyString(m, id, str) ==
    [ m EXCEPT !.str[id] = str ]

\* CameraModel::setFocusInfo(focusInfo)
setFocusInfo(m, focusInfo) ==
    [ m EXCEPT !.focusInfo = focusInfo ]

\* What an observer reads from the model for property id during update().
ModelView(m, id) ==
    [ uint32 |-> m.uint32[id], str |-> m.str[id], focusInfo |-> m.focusInfo ]

\* Observable::notifyObservers(e): every observer's update(e) runs
\* synchronously, before notifyObservers returns.
notifyObservers(log, e) == Append(log, e)

\* ------------------------------------------------------- GetPropertyCommand

Init ==
    /\ pc = "new"
    /\ _propertyID = "kEdsPropID_Unknown"
    /\ sdkData = 0
    /\ todo = << >>
    /\ propertyID = "kEdsPropID_Unknown"
    /\ err = EDS_ERR_OK
    /\ dataType = "kEdsDataType_Unknown"
    /\ model = CameraModelInit
    /\ events = << >>
    /\ sdkCalls = << >>
    /\ ret = "none"
    /\ stubModel = [ constructed |-> FALSE, camera_ |-> [ addr |-> 0 ] ]
    /\ pyHandle = 0
    /\ lastCall = [ fn |-> "none" ]
    /\ lastRet = "none"
    /\ lastSet = [ field |-> "none" ]
    /\ pending = 0
    /\ observers = [ c \in ObservableClasses |-> 0 ]
    /\ executeInvoked = 0
    /\ updateInvoked = 0
    /\ lastSdk = [ err |-> EDS_ERR_OK, wrote |-> FALSE, out |-> 0 ]

\* GetPropertyCommand(model, propertyID). The camera holds some value,
\* which the SDK delivers for whatever property and type is read while the
\* command runs; the command is executed once.
Construct(id, v) ==
    /\ pc = "new"
    /\ pc' = "ready"
    /\ _propertyID' = id
    /\ sdkData' = v
    /\ UNCHANGED << todo, propertyID, err, dataType, model, events, sdkCalls, ret >>
    /\ UNCHANGED stubVars

\* The properties getProperty(id) fetches, in order (lines 71-83).
FetchList(id) ==
    IF id = "kEdsPropID_Unknown" THEN UnknownList ELSE << id >>

\* execute() up to its call of getProperty(_propertyID), and getProperty up
\* to its first SDK call.
Execute ==
    /\ pc = "ready"
    /\ pc' = "size"
    /\ err' = EDS_ERR_OK
    /\ propertyID' = Head(FetchList(_propertyID))
    /\ todo' = Tail(FetchList(_propertyID))
    /\ dataType' = "kEdsDataType_Unknown"
    /\ UNCHANGED << _propertyID, sdkData, model, events, sdkCalls, ret >>
    /\ UNCHANGED stubVars

\* Whether getProperty reads the data of a property of type t.
Handled(t) ==
    t \in { "kEdsDataType_UInt32", "kEdsDataType_String", "kEdsDataType_FocusInfo" }

\* EdsGetPropertySize(camera, propertyID, 0, &dataType, &dataSize): the SDK
\* answers with an error, leaving dataType as initialised, or with success
\* and a data type. dataSize is only handed back to EdsGetPropertyData and
\* is not modelled.
GetPropertySize ==
    /\ pc = "size"
    /\ \E e \in { EDS_ERR_OK } \cup SdkErrors :
       \E t \in IF e = EDS_ERR_OK THEN DataTypes ELSE { "kEdsDataType_Unknown" } :
          /\ err' = e
          /\ dataType' = t
          /\ pc' = IF e # EDS_ERR_OK THEN "return"
                   ELSE IF Handled(t) THEN "data" ELSE "notify"
          /\ sdkCalls' = Append(sdkCalls,
                [ fn |-> "EdsGetPropertySize", id |-> propertyID, err |-> e ])
    /\ UNCHANGED << _propertyID, sdkData, todo, propertyID, model, events, ret >>
    /\ UNCHANGED stubVars

\* Variant: string data is fetched but not handed to the model.
SetPropertyDropsString(m, t, id, data) ==
    CASE t = "kEdsDataType_UInt32" -> setPropertyUInt32(m, id, data)
      [] t = "kEdsDataType_FocusInfo" -> setFocusInfo(m, data)
      [] OTHER -> m

\* The setter getProperty calls for data of type t.
SetProperty(m, t, id, data) ==
    CASE t = "kEdsDataType_UInt32" -> setPropertyUInt32(m, id, data)
      [] t = "kEdsDataType_String" -> setPropertyString(m, id, data)
      [] t = "kEdsDataType_FocusInfo" -> setFocusInfo(m, data)
      [] OTHER -> m

\* Variant: getProperty returns right after the setter, without the update
\* notification.
GetPropertyDataReturnsEarly ==
    /\ pc = "data"
    /\ \E e \in { EDS_ERR_OK } \cup SdkErrors :
          /\ err' = e
          /\ model' = IF e = EDS_ERR_OK
                      THEN SetProperty(model, dataType, propertyID, sdkData)
                      ELSE model
          /\ pc' = "return"
          /\ sdkCalls' = Append(sdkCalls,
                [ fn |-> "EdsGetPropertyData", id |-> propertyID, err |-> e ])
    /\ UNCHANGED << _propertyID, sdkData, todo, propertyID, dataType, events, ret >>
    /\ UNCHANGED stubVars

\* EdsGetPropertyData(camera, propertyID, 0, dataSize, &data) and, when it
\* succeeds, the model's setter for the data type.
GetPropertyData ==
    /\ pc = "data"
    /\ \E e \in { EDS_ERR_OK } \cup SdkErrors :
          /\ err' = e
          /\ model' = IF e = EDS_ERR_OK
                      THEN SetProperty(model, dataType, propertyID, sdkData)
                      ELSE model
          /\ pc' = IF e = EDS_ERR_OK THEN "notify" ELSE "return"
          /\ sdkCalls' = Append(sdkCalls,
                [ fn |-> "EdsGetPropertyData", id |-> propertyID, err |-> e ])
    /\ UNCHANGED << _propertyID, sdkData, todo, propertyID, dataType, events, ret >>
    /\ UNCHANGED stubVars

\* Variant: the event carries the command's _propertyID, not the ID of the
\* property just fetched.
NotifyPropertyChangedCommandID ==
    /\ pc = "notify"
    /\ events' = notifyObservers(events,
                    [ event |-> "PropertyChanged", arg |-> _propertyID,
                      seen |-> ModelView(model, propertyID) ])
    /\ pc' = "return"
    /\ UNCHANGED << _propertyID, sdkData, todo, propertyID, err, dataType, model,
                    sdkCalls, ret >>
    /\ UNCHANGED stubVars

\* Update notification: CameraEvent e("PropertyChanged", &propertyID).
NotifyPropertyChanged ==
    /\ pc = "notify"
    /\ events' = notifyObservers(events,
                    [ event |-> "PropertyChanged", arg |-> propertyID,
                      seen |-> ModelView(model, propertyID) ])
    /\ pc' = "return"
    /\ UNCHANGED << _propertyID, sdkData, todo, propertyID, err, dataType, model,
                    sdkCalls, ret >>
    /\ UNCHANGED stubVars

\* Variant: the later fetches without their err == EDS_ERR_OK guard.
ContinuesAlways(e) == TRUE

\* Whether getProperty(kEdsPropID_Unknown) goes on to the next property
\* after a fetch that returned e.
Continues(e) == e = EDS_ERR_OK

\* getProperty(propertyID) returns err: getProperty(kEdsPropID_Unknown)
\* fetches the next property while err is OK, else execute() goes on.
Return ==
    /\ pc = "return"
    /\ IF todo # << >> /\ Continues(err)
       THEN /\ propertyID' = Head(todo)
            /\ todo' = Tail(todo)
            /\ dataType' = "kEdsDataType_Unknown"
            /\ pc' = "size"
       ELSE /\ pc' = "report"
            /\ UNCHANGED << propertyID, todo, dataType >>
    /\ UNCHANGED << _propertyID, sdkData, err, model, events, sdkCalls, ret >>
    /\ UNCHANGED stubVars

\* Variant: the comparison without the mask.
IsDeviceBusyNoMask(e) == e = EDS_ERR_DEVICE_BUSY

\* Variant: a mask of the low byte only.
IsDeviceBusyLowByte(e) == e % 256 = EDS_ERR_DEVICE_BUSY

\* (err & EDS_ERRORID_MASK) == EDS_ERR_DEVICE_BUSY
IsDeviceBusy(e) == BitAnd(e, EDS_ERRORID_MASK) = EDS_ERR_DEVICE_BUSY

\* Variant: the device-busy branch without its return.
ReportFallsThrough ==
    /\ pc = "report"
    /\ pc' = "done"
    /\ IF err # EDS_ERR_OK
       THEN /\ events' = notifyObservers(
                    IF BitAnd(err, EDS_ERRORID_MASK) = EDS_ERR_DEVICE_BUSY
                    THEN notifyObservers(events, [ event |-> "DeviceBusy" ])
                    ELSE events,
                    [ event |-> "error", arg |-> err ])
            /\ ret' = "true"
       ELSE /\ ret' = "true"
            /\ UNCHANGED events
    /\ UNCHANGED << _propertyID, sdkData, todo, propertyID, err, dataType, model,
                    sdkCalls >>
    /\ UNCHANGED stubVars

\* execute() after getProperty: notification of error, and the result.
Report ==
    /\ pc = "report"
    /\ pc' = "done"
    /\ IF err # EDS_ERR_OK
       THEN IF IsDeviceBusy(err)
            THEN /\ events' = notifyObservers(events, [ event |-> "DeviceBusy" ])
                 /\ ret' = "false"
            ELSE /\ events' = notifyObservers(events, [ event |-> "error", arg |-> err ])
                 /\ ret' = "true"
       ELSE /\ ret' = "true"
            /\ UNCHANGED events
    /\ UNCHANGED << _propertyID, sdkData, todo, propertyID, err, dataType, model,
                    sdkCalls >>
    /\ UNCHANGED stubVars

\* ------------------------------------------------- the stubbed binding

\* 2^n
RECURSIVE Pow2(_)
Pow2(n) == IF n = 0 THEN 1 ELSE 2 * Pow2(n - 1)

\* Integers the caller may pass as a handle: in the range of uintptr_t
\* (0, the top bit alone, all bits) and outside it.
PyInts == { -1, 0, Pow2(PtrBits - 1), Pow2(PtrBits) - 1, Pow2(PtrBits) }

\* pybind11's conversion of a host integer to uintptr_t: it is refused
\* (TypeError, the bound function is not entered) outside 0 .. 2^PtrBits - 1.
FitsUintptr(n) == n >= 0 /\ n < Pow2(PtrBits)

\* Variant: the handle passes through a type one bit narrower.
ToCameraRefNarrow(camera) == [ addr |-> camera % Pow2(PtrBits - 1) ]

\* reinterpret_cast<EdsCameraRef>(camera): the pointer with that address.
ToCameraRef(camera) == [ addr |-> camera % Pow2(PtrBits) ]

\* reinterpret_cast<uintptr_t>(camera_)
getCameraObject(m) == m.camera_.addr

\* CameraModel(uintptr_t camera) : camera_(reinterpret_cast<EdsCameraRef>(camera))
CameraModelCtor(camera) ==
    [ constructed |-> TRUE, camera_ |-> ToCameraRef(camera) ]

\* The properties the bound CameraModel has a getter and a setter for.
NumericFields ==
    { "ae_mode", "tv", "av", "iso", "metering_mode", "exposure_compensation",
      "image_quality", "evf_mode", "evf_output_device",
      "evf_depth_of_field_preview", "evf_zoom", "evf_af_mode", "focus_info" }

Fields ==
    NumericFields \cup
    { "evf_zoom_position", "evf_zoom_rect", "model_name", "property_desc" }

EdsPointOf(v) == [ x |-> v, y |-> v ]

EdsRectOf(v) == [ point |-> EdsPointOf(v), size |-> [ width |-> v, height |-> v ] ]

\* The values a caller may hand to the setter of field f.
SetterArgs(f) ==
    CASE f \in NumericFields -> Values
      [] f = "evf_zoom_position" -> { EdsPointOf(v) : v \in Values }
      [] f = "evf_zoom_rect" -> { EdsRectOf(v) : v \in Values }
      [] f = "model_name" -> { "", "Camera", "EOS" }
      [] f = "property_desc" -> { << >> } \cup { << v >> : v \in Values }

\* Variant: a getter answers with what the caller last set for its field.
StubGetStored(m, f) ==
    IF lastSet.field = f THEN lastSet.value
    ELSE IF f = "model_name" THEN "Camera"
    ELSE IF f = "property_desc" THEN << >>
    ELSE IF f = "evf_zoom_position" THEN EdsPointOf(0)
    ELSE IF f = "evf_zoom_rect" THEN EdsRectOf(0)
    ELSE 0

\* CameraModel's getters (get_property_desc for any property ID).
StubGet(m, f) ==
    CASE f \in NumericFields -> 0
      [] f = "evf_zoom_position" -> EdsPointOf(0)
      [] f = "evf_zoom_rect" -> EdsRectOf(0)
      [] f = "model_name" -> "Camera"
      [] f = "property_desc" -> << >>

\* CameraModel's setters and setPropertyDesc: empty bodies.
StubSet(m, f, value) == m

\* py::init<uintptr_t>() of CameraModel
NewCameraModel(n) ==
    /\ FitsUintptr(n)
    /\ stubModel' = CameraModelCtor(n)
    /\ pyHandle' = n
    /\ lastCall' = [ fn |-> "CameraModel" ]
    /\ lastRet' = "none"
    /\ lastSet' = [ field |-> "none" ]
    /\ UNCHANGED << pending, observers, executeInvoked, updateInvoked >>
    /\ UNCHANGED << gpVars, lastSdk >>

\* set_<f>(value), set_property_desc(id, value)
CameraModelSet(f, value) ==
    /\ stubModel.constructed
    /\ stubModel' = StubSet(stubModel, f, value)
    /\ lastCall' = [ fn |-> "set", field |-> f ]
    /\ lastRet' = "none"
    /\ lastSet' = [ field |-> f, value |-> value ]
    /\ UNCHANGED << pyHandle, pending, observers, executeInvoked, updateInvoked >>
    /\ UNCHANGED << gpVars, lastSdk >>

\* get_<f>(), get_property_desc(id)
CameraModelGet(f) ==
    /\ stubModel.constructed
    /\ lastCall' = [ fn |-> "get", field |-> f ]
    /\ lastRet' = StubGet(stubModel, f)
    /\ UNCHANGED << stubModel, pyHandle, lastSet, pending, observers,
                    executeInvoked, updateInvoked >>
    /\ UNCHANGED << gpVars, lastSdk >>

\* get_camera_object()
CameraModelGetCameraObject ==
    /\ stubModel.constructed
    /\ lastCall' = [ fn |-> "get_camera_object" ]
    /\ lastRet' = getCameraObject(stubModel)
    /\ UNCHANGED << stubModel, pyHandle, lastSet, pending, observers,
                    executeInvoked, updateInvoked >>
    /\ UNCHANGED << gpVars, lastSdk >>

\* The command classes of the binding.
CommandClasses ==
    { "Command", "TakePictureCommand", "PressShutterButtonCommand",
      "OpenSessionCommand", "CloseSessionCommand", "SaveSettingCommand",
      "StartEvfCommand", "EndEvfCommand", "DownloadEvfCommand", "DoEvfAFCommand",
      "DriveLensCommand", "GetPropertyCommand", "GetPropertyDescCommand",
      "SetCapacityCommand", "NotifyCommand", "DownloadCommand" }

\* Constructor arguments: the model handle and the class's own parameter.
CommandArgs == [ model : { 0, 1 }, param : Values ]

\* Variant: a command built on a null model handle reports failure.
StubExecuteChecksModel(c, args, m) == [ ret |-> args.model # 0, model |-> m ]

\* execute() of command class c built with args: what it returns and the
\* camera model it leaves.
StubExecute(c, args, m) == [ ret |-> TRUE, model |-> m ]

\* <c>(args).execute()
CommandExecute(c, args) ==
    /\ lastCall' = [ fn |-> "execute", class |-> c ]
    /\ lastRet' = StubExecute(c, args, stubModel).ret
    /\ stubModel' = StubExecute(c, args, stubModel).model
    /\ UNCHANGED << pyHandle, lastSet, pending, observers, executeInvoked,
                    updateInvoked >>
    /\ UNCHANGED << gpVars, lastSdk >>

\* Variant: run() executes the pending commands.
ProcessorRunsPending(fn, n) == IF fn = "run" THEN n ELSE 0

\* How many enqueued commands' execute() a call of Processor method fn
\* invokes when n commands are pending: every body is empty.
ProcessorInvokes(fn, n) == 0

\* Processor.enqueue(cmd)
ProcessorEnqueue ==
    /\ pending < MaxObj
    /\ pending' = pending + 1
    /\ executeInvoked' = executeInvoked + ProcessorInvokes("enqueue", pending + 1)
    /\ lastCall' = [ fn |-> "enqueue" ]
    /\ lastRet' = "none"
    /\ UNCHANGED << stubModel, pyHandle, lastSet, observers, updateInvoked >>
    /\ UNCHANGED << gpVars, lastSdk >>

\* Processor.set_close_command(cmd), start(), run(), stop()
ProcessorCall(fn) ==
    /\ executeInvoked' = executeInvoked + ProcessorInvokes(fn, pending)
    /\ lastCall' = [ fn |-> fn ]
    /\ lastRet' = "none"
    /\ UNCHANGED << stubModel, pyHandle, lastSet, pending, observers, updateInvoked >>
    /\ UNCHANGED << gpVars, lastSdk >>

\* Processor.clear()
ProcessorClear ==
    /\ pending' = 0
    /\ executeInvoked' = executeInvoked + ProcessorInvokes("clear", pending)
    /\ lastCall' = [ fn |-> "clear" ]
    /\ lastRet' = "none"
    /\ UNCHANGED << stubModel, pyHandle, lastSet, observers, updateInvoked >>
    /\ UNCHANGED << gpVars, lastSdk >>

\* How many observers' update() notifyObservers invokes when n observers
\* were added: the body is empty.
NotifyInvokes(n) == 0

\* add_observer(observer) of class c
AddObserver(c) ==
    /\ c = "CameraModel" => stubModel.constructed
    /\ observers[c] < MaxObj
    /\ observers' = [ observers EXCEPT ![c] = @ + 1 ]
    /\ lastCall' = [ fn |-> "add_observer", class |-> c ]
    /\ lastRet' = "none"
    /\ UNCHANGED << stubModel, pyHandle, lastSet, pending, executeInvoked,
                    updateInvoked >>
    /\ UNCHANGED << gpVars, lastSdk >>

\* remove_observer(observer) of class c
RemoveObserver(c) ==
    /\ observers[c] > 0
    /\ observers' = [ observers EXCEPT ![c] = @ - 1 ]
    /\ lastCall' = [ fn |-> "remove_observer", class |-> c ]
    /\ lastRet' = "none"
    /\ UNCHANGED << stubModel, pyHandle, lastSet, pending, executeInvoked,
                    updateInvoked >>
    /\ UNCHANGED << gpVars, lastSdk >>

\* notify_observers(event) of class c
NotifyObservers(c) ==
    /\ c = "CameraModel" => stubModel.constructed
    /\ updateInvoked' = updateInvoked + NotifyInvokes(observers[c])
    /\ lastCall' = [ fn |-> "notify_observers", class |-> c ]
    /\ lastRet' = "none"
    /\ UNCHANGED << stubModel, pyHandle, lastSet, pending, observers, executeInvoked >>
    /\ UNCHANGED << gpVars, lastSdk >>

NextStub ==
    \/ \E n \in PyInts : NewCameraModel(n)
    \/ \E f \in Fields : \E value \in SetterArgs(f) : CameraModelSet(f, value)
    \/ \E f \in Fields : CameraModelGet(f)
    \/ CameraModelGetCameraObject
    \/ \E c \in CommandClasses, args \in CommandArgs : CommandExecute(c, args)

\* The Processor / Observable skeleton of the binding.
NextSkeleton ==
    \/ NewCameraModel(0)
    \/ ProcessorEnqueue
    \/ \E fn \in { "set_close_command", "start", "run", "stop" } : ProcessorCall(fn)
    \/ ProcessorClear
    \/ \E c \in ObservableClasses : AddObserver(c)
    \/ \E c \in ObservableClasses : RemoveObserver(c)
    \/ \E c \in ObservableClasses : NotifyObservers(c)

\* ------------------------------------------ the SDK functions of the binding

\* The binding's EdsGetCameraList, EdsGetChildCount and EdsGetChildAtIndex.
SdkBindings == { "EdsGetCameraList", "EdsGetChildCount", "EdsGetChildAtIndex" }

\* What an SDK call can do with its output parameter: on success it writes
\* a value (0 included: an empty list, a null reference); on failure it
\* writes something or leaves the output as the caller initialised it.
SdkOutcomes ==
    [ err : { EDS_ERR_OK }, wrote : { TRUE }, out : 0..(Pow2(PtrBits) - 1) ]
        \cup [ err : SdkErrors, wrote : { FALSE }, out : { 0 } ]
        \cup [ err : SdkErrors, wrote : { TRUE }, out : 0..(Pow2(PtrBits) - 1) ]

\* The arguments a caller may pass: none, ref, or ref and index.
SdkBindingArgs(fn) ==
    CASE fn = "EdsGetCameraList" -> { << >> }
      [] fn = "EdsGetChildCount" -> { << ref >> : ref \in { n \in PyInts : FitsUintptr(n) } }
      [] fn = "EdsGetChildAtIndex" ->
            { << ref, index >> : ref \in { n \in PyInts : FitsUintptr(n) },
                                 index \in 0..1 }

\* Variant: a failed SDK call hands its error code to the caller.
SdkBindingReportsError(fn, o) ==
    IF o.err # EDS_ERR_OK THEN o.err
    ELSE IF o.wrote THEN o.out ELSE 0

\* What the binding function fn returns after the SDK call did o: the local
\* it initialised to nullptr (to 0 for the count) and passed as the output
\* parameter, cast to uintptr_t when it is a reference; err is dropped.
SdkBindingResult(fn, o) ==
    IF fn = "EdsGetChildCount"
    THEN IF o.wrote THEN o.out ELSE 0
    ELSE (IF o.wrote THEN ToCameraRef(o.out) ELSE ToCameraRef(0)).addr

\* EdsGetCameraList(), EdsGetChildCount(ref), EdsGetChildAtIndex(ref, index)
SdkBindingCall(fn, args, o) ==
    /\ lastCall' = [ fn |-> fn, args |-> args ]
    /\ lastSdk' = o
    /\ lastRet' = SdkBindingResult(fn, o)
    /\ UNCHANGED << stubModel, pyHandle, lastSet, pending, observers,
                    executeInvoked, updateInvoked >>
    /\ UNCHANGED gpVars

\* The SDK functions of the binding, called from the host language.
NextSdk ==
    \E fn \in SdkBindings : \E args \in SdkBindingArgs(fn) : \E o \in SdkOutcomes :
        SdkBindingCall(fn, args, o)


\* ------------------------------------------------------- specifications

NextGP ==
    \/ \E id \in PropertyIDs, v \in Values : Construct(id, v)
    \/ Execute
    \/ GetPropertySize
    \/ GetPropertyData
    \/ NotifyPropertyChanged
    \/ Return
    \/ Report

\* GetPropertyCommand against the EDSDK.
Spec == Init /\ [][NextGP]_vars

\* The stubbed binding, called from the host language.
SpecStub == Init /\ [][NextStub]_vars

\* The stubbed command queue and observer list, called from the host language.
SpecSkeleton == Init /\ [][NextSkeleton]_vars

\* The binding's SDK functions over the closed SDK.
SpecSdk == Init /\ [][NextSdk]_vars

\* ----------------------------------------------------------------- claims

\* Number of notified events named name.
CountEvents(name) ==
    Cardinality({ i \in DOMAIN events : events[i].event = name })

\* The error-ID part of e is device busy: e modulo 2^16 is 0x81.
BusyID(e) == e % (EDS_ERRORID_MASK + 1) = EDS_ERR_DEVICE_BUSY

\* execute() has returned, having fetched the single known property it
\* was built with.
SingleDone == pc = "done" /\ _propertyID # "kEdsPropID_Unknown"

\* C1: execute() returns false exactly when the fetch failed with an error
\* whose error-ID part is EDS_ERR_DEVICE_BUSY, whatever its other bits; for
\* success and every other error it returns true.
C1_RetryIffDeviceBusy ==
    pc = "done" =>
        /\ ret \in { "true", "false" }
        /\ ret = "false" <=> (err # EDS_ERR_OK /\ BusyID(err))

\* C1 witness: execute() returned false for device busy with bits set
\* outside the mask.
C1_Witness ==
    pc = "done" /\ ret = "false" /\ err > EDS_ERRORID_MASK

C3_StubGettersConstant ==
    lastCall.fn = "get" =>
        CASE lastCall.field = "evf_zoom_position" -> lastRet = [ x |-> 0, y |-> 0 ]
          [] lastCall.field = "evf_zoom_rect" ->
                lastRet = [ point |-> [ x |-> 0, y |-> 0 ],
                            size |-> [ width |-> 0, height |-> 0 ] ]
          [] lastCall.field = "model_name" -> lastRet = "Camera"
          [] lastCall.field = "property_desc" -> lastRet = << >>
          [] OTHER -> lastRet = 0

\* C3 witness: get_tv() returned 0 right after the caller set tv to a
\* value that is not 0.
C3_Witness ==
    /\ lastCall.fn = "get"
    /\ lastCall.field = "tv"
    /\ lastSet.field = "tv"
    /\ lastSet.value # 0
    /\ lastRet = 0

\* C4: in the stubbed binding, execute() of every command class returns
\* true, for every constructor argument and in every state, and leaves the
\* camera model as it was.
C4_StubExecuteTrueNoEffect ==
    [][ lastCall'.fn = "execute" =>
            (lastRet' = TRUE /\ stubModel' = stubModel) ]_vars

\* C4 witness: DownloadCommand.execute() has returned while a camera model
\* exists.
C4_Witness ==
    /\ lastCall.fn = "execute"
    /\ lastCall.class = "DownloadCommand"
    /\ lastRet = TRUE
    /\ stubModel.constructed

\* C5: in the stubbed binding, no sequence of Processor and observer calls
\* ever invokes an enqueued command's execute or an observer's update.
C5_SkeletonInert == executeInvoked = 0 /\ updateInvoked = 0

\* C5 witness: run() has returned with a command enqueued and observers
\* added to both classes.
C5_Witness ==
    /\ lastCall.fn = "run"
    /\ pending > 0
    /\ \A c \in ObservableClasses : observers[c] > 0

C7_BusyNotifiesOnce ==
    (pc = "done" /\ err # EDS_ERR_OK /\ BusyID(err)) =>
        /\ CountEvents("DeviceBusy") = 1
        /\ CountEvents("error") = 0
        /\ events[Len(events)].event = "DeviceBusy"

\* C7 witness: device busy came after some properties had been fetched and
\* notified.
C7_Witness ==
    /\ pc = "done"
    /\ BusyID(err)
    /\ Len(events) > 1
    /\ CountEvents("DeviceBusy") = 1

\* C8: when execute() fails with an error that is not device busy,
\* observers get exactly one "error" event whose argument is that error
\* code, no "DeviceBusy" event, and execute() returns true.
C8_ErrorNotifiesOnce ==
    (pc = "done" /\ err # EDS_ERR_OK /\ ~BusyID(err)) =>
        /\ CountEvents("error") = 1
        /\ \A i \in DOMAIN events :
              events[i].event = "error" => events[i].arg = err
        /\ CountEvents("DeviceBusy") = 0
        /\ ret = "true"

\* C8 witness: execute() returned true after an error that shares only
\* its low byte with device busy.
C8_Witness ==
    /\ pc = "done"
    /\ err # EDS_ERR_OK
    /\ ~BusyID(err)
    /\ err % 256 = EDS_ERR_DEVICE_BUSY
    /\ CountEvents("error") = 1
    /\ ret = "true"

\* The one PropertyChanged event of a single-property fetch.
OnePropertyChanged ==
    /\ Len(events) = 1
    /\ events[1].event = "PropertyChanged"
    /\ events[1].arg = _propertyID

\* The value the SDK delivered is what an observer reading the model
\* during the event sees for the property.
SeenNewValue(e) ==
    \/ dataType = "kEdsDataType_UInt32" /\ e.seen.uint32 = sdkData
    \/ dataType = "kEdsDataType_String" /\ e.seen.str = sdkData
    \/ dataType = "kEdsDataType_FocusInfo" /\ e.seen.focusInfo = sdkData

C10_Order ==
    << "kEdsPropID_AEModeSelect", "kEdsPropID_Tv", "kEdsPropID_Av",
       "kEdsPropID_ISOSpeed", "kEdsPropID_MeteringMode",
       "kEdsPropID_ExposureCompensation", "kEdsPropID_ImageQuality" >>

\* The properties whose size was asked of the SDK, in call order.
SizeCalls == SelectSeq(sdkCalls, LAMBDA c : c.fn = "EdsGetPropertySize")

\* C10: executed with kEdsPropID_Unknown, the command fetches the seven
\* properties in source order, makes no SDK call after the first call that
\* fails, and reports that first error, or success once all seven succeeded.
C10_UnknownFetchOrder ==
    _propertyID = "kEdsPropID_Unknown" =>
        /\ Len(SizeCalls) <= Len(C10_Order)
        /\ \A i \in DOMAIN SizeCalls : SizeCalls[i].id = C10_Order[i]
        /\ \A i \in DOMAIN sdkCalls :
              /\ i < Len(sdkCalls) => sdkCalls[i].err = EDS_ERR_OK
              /\ sdkCalls[i].fn = "EdsGetPropertyData" =>
                    /\ i > 1
                    /\ sdkCalls[i - 1].fn = "EdsGetPropertySize"
                    /\ sdkCalls[i - 1].id = sdkCalls[i].id
        /\ pc \in { "report", "done" } =>
              /\ sdkCalls # << >>
              /\ err = sdkCalls[Len(sdkCalls)].err
              /\ err = EDS_ERR_OK => Len(SizeCalls) = Len(C10_Order)
        /\ pc = "done" =>
              /\ err = EDS_ERR_OK => (ret = "true" /\ CountEvents("error") = 0
                                        /\ CountEvents("DeviceBusy") = 0)
              /\ err # EDS_ERR_OK =>
                    \/ events[Len(events)] = [ event |-> "error", arg |-> err ]
                    \/ events[Len(events)] = [ event |-> "DeviceBusy" ] /\ BusyID(err)

\* C10 witness: the third property's fetch failed and execute() returned
\* with three size calls made.
C10_Witness ==
    /\ _propertyID = "kEdsPropID_Unknown"
    /\ pc = "done"
    /\ err # EDS_ERR_OK
    /\ Len(SizeCalls) = 3
    /\ Len(sdkCalls) > 3

\* C11: executed with kEdsPropID_Unknown, once all seven fetches succeeded
\* observers have received exactly seven "PropertyChanged" events, one per
\* fetched property in fetch order, and no other event; at no point does a
\* "PropertyChanged" event carry kEdsPropID_Unknown.
C11_SevenPropertyChanged ==
    _propertyID = "kEdsPropID_Unknown" =>
        /\ \A i \in DOMAIN events :
              events[i].event = "PropertyChanged" =>
                  events[i].arg # "kEdsPropID_Unknown"
        /\ (pc = "done" /\ err = EDS_ERR_OK) =>
              /\ Len(events) = 7
              /\ \A i \in DOMAIN events :
                    /\ events[i].event = "PropertyChanged"
                    /\ events[i].arg = C10_Order[i]

\* C11 witness: execute() returned after seven successful fetches, the last
\* event being the one for kEdsPropID_ImageQuality.
C11_Witness ==
    /\ _propertyID = "kEdsPropID_Unknown"
    /\ pc = "done"
    /\ err = EDS_ERR_OK
    /\ Len(SizeCalls) = 7
    /\ Len(events) = 7
    /\ events[7].arg = "kEdsPropID_ImageQuality"

\* C12: EdsGetCameraList, EdsGetChildCount and EdsGetChildAtIndex hand the
\* caller only the output value, never the SDK's error code: after a call
\* that failed and left its output untouched they return 0, which is also
\* what some successful call returns.
C12_SdkErrorsSwallowed ==
    lastCall.fn \in { "EdsGetCameraList", "EdsGetChildCount", "EdsGetChildAtIndex" } =>
        /\ lastRet = IF lastSdk.wrote THEN lastSdk.out ELSE 0
        /\ (lastSdk.err # EDS_ERR_OK /\ ~lastSdk.wrote) =>
              /\ lastRet = 0
              /\ \E o \in SdkOutcomes :
                    /\ o.err = EDS_ERR_OK
                    /\ SdkBindingResult(lastCall.fn, o) = lastRet

\* C12 witness: EdsGetChildCount returned 0 after the SDK reported device
\* busy and wrote no count.
C12_Witness ==
    /\ lastCall.fn = "EdsGetChildCount"
    /\ lastSdk.err = EDS_ERR_DEVICE_BUSY
    /\ ~lastSdk.wrote
    /\ lastRet = 0

====
